---- MODULE Spec2Model ----
(***************************************************************************)
(* A model of linq.hpp: a range_enumerator over a finite sequence and the  *)
(* drop / take / select / until / where adapters built on it by reference, *)
(* with the to_vector sink.                                                *)
(*                                                                         *)
(* A cursor state s is a record                                            *)
(*   pos   : begin_ - (start of the range), so end_ is Len(R)              *)
(*   ch    : the adapters, ch[i] wrapping ch[i-1] (ch[1] wraps the source) *)
(*   ub    : the operation incremented or dereferenced begin_ at or past   *)
(*           end_ (undefined behaviour)                                    *)
(*   fault : the operation touched memory beyond the cells after the range *)
(*           that the process can read                                     *)
(*   junk  : the contents of the memory cells that follow the range        *)
(* and, per cursor level (level i at index i + 1), what the operation in   *)
(* progress has done so far:                                               *)
(*   adv   : the number of operator++ calls the cursor received            *)
(*   rd    : the number of operator* calls the cursor received             *)
(*   oob   : the cursor received operator++ or operator* while its         *)
(*           operator bool was false                                       *)
(*   fn    : the arguments func_ was invoked with, in order (select)       *)
(* Every method takes the level i of the cursor it is called on (0 is the  *)
(* source) and the state, and returns the state after it, with its result. *)
(* Predicates and functions are captured by value; the object until_eq and *)
(* where_neq capture by reference is kept alive by the caller.             *)
(***************************************************************************)
EXTENDS Integers, Sequences, FiniteSets, TLC

\* ---- bounds
MaxLen == 3
MaxDepth == 2
MaxCount == 3
PastMax == 1
MaxAdv == 2

\* ---- inputs
Vals == {1, 2}
JunkVals == {1, 6}
Counts == {0 - 1} \cup (0..MaxCount)
EqArgs == {1, 6}

Example1 == <<0, 1, 2, 3, 4, 5, 6>>
Example2 == <<0, 1, 2, 3, 4, 5, 6, 7, 8>>
Example3 == <<1, 2, 1, 3, 1>>

SeqsUpTo(S, n) == UNION {[1..k -> S] : k \in 0..n}
Ranges == SeqsUpTo(Vals, MaxLen) \cup {Example1, Example2, Example3}

Pred(t, x) == [t |-> t, x |-> x]
NoPred == Pred("none", 0)
IsEven == Pred("even", 0)
Preds == {IsEven, Pred("is", 2), Pred("isnt", 2)}

Func(t, g, f) == [t |-> t, g |-> g, f |-> f]
NoFunc == Func("none", "", "")
Prims == {"succ", "dbl"}
Compose(g, f) == Func("comp", g, f)
Funcs == {Func(t, "", "") : t \in Prims} \cup {Compose("dbl", "succ")}

VARIABLES R, junk, chain, pos, status, phase, lastOp, hm, cur, out, nadv,
          calls, trapOp

vars == <<R, junk, chain, pos, status, phase, lastOp, hm, cur, out, nadv,
          calls, trapOp>>

\* ---- caller-supplied and library-supplied callables
Prim(t, v) == IF t = "succ" THEN v + 1 ELSE 2 * v

Apply(f, v) == IF f.t = "comp" THEN Prim(f.g, Prim(f.f, v)) ELSE Prim(f.t, v)

\* the lambda of until_eq: check == object
EqLambda(object, check) == check = object

\* mutant: where_neq compares with == instead of !=
NeqLambdaEq(object, check) == check = object

\* the lambda of where_neq: check != object
NeqLambda(object, check) == check # object

\* predicate_(v): "eq" and "neq" are the library's lambdas, the others the caller's
Holds(p, v) ==
    CASE p.t = "eq" -> EqLambda(p.x, v)
      [] p.t = "neq" -> NeqLambda(p.x, v)
      [] p.t = "even" -> v % 2 = 0
      [] p.t = "is" -> v = p.x
      [] p.t = "isnt" -> v # p.x
      [] OTHER -> FALSE

RECURSIVE HasMore(_, _), Cur(_, _), Advance(_, _)
RECURSIVE DropCtorLoop(_, _, _), WhereLoop(_, _), ToVectorLoop(_, _, _)

\* ---- range_enumerator
Mem(s) == IF s.pos < Len(R) THEN R[s.pos + 1] ELSE s.junk[s.pos - Len(R) + 1]

RangeCur(s) == [v |-> Mem(s), s |-> [s EXCEPT !.ub = @ \/ s.pos >= Len(R)]]

RangeAdvance(s) ==
    IF s.pos >= Len(R) + PastMax
    THEN [s EXCEPT !.ub = TRUE, !.fault = TRUE]
    ELSE [s EXCEPT !.pos = @ + 1, !.ub = @ \/ s.pos >= Len(R)]

RangeHasMore(s) == [b |-> s.pos # Len(R), s |-> s]

\* ---- drop_enumerator
DropCtorLoop(i, count, s) ==
    IF count <= 0 \/ s.fault THEN s
    ELSE DropCtorLoop(i, count - 1, Advance(i - 1, s))

DropCtor(i, s) == DropCtorLoop(i, s.ch[i].n, s)

DropCur(i, s) == Cur(i - 1, s)

DropAdvance(i, s) == Advance(i - 1, s)

DropHasMore(i, s) == HasMore(i - 1, s)

\* ---- take_enumerator
TakeCtor(i, s) == [s EXCEPT !.ch[i].last = s.ch[i].n]

TakeCur(i, s) == Cur(i - 1, s)

\* mutant: operator++ forwards to the parent whatever the counter says
TakeAdvanceEager(i, s) == Advance(i - 1, [s EXCEPT !.ch[i].last = @ - 1])

TakeAdvance(i, s) ==
    LET s1 == [s EXCEPT !.ch[i].last = @ - 1]
    IN  IF s1.ch[i].last > 0 THEN Advance(i - 1, s1) ELSE s1

\* mutant: has_more lets the counter reach zero
TakeHasMoreOffByOne(i, s) ==
    LET r == HasMore(i - 1, s)
    IN  [b |-> r.b /\ r.s.ch[i].last >= 0, s |-> r.s]

\* mutant: has_more counts the query as an element taken
TakeHasMoreConsuming(i, s) ==
    LET r == HasMore(i - 1, s)
    IN  [b |-> r.b /\ r.s.ch[i].last > 0, s |-> [r.s EXCEPT !.ch[i].last = @ - 1]]

\* mutant: has_more treats every non-zero counter as elements left
TakeHasMoreNonZero(i, s) ==
    LET r == HasMore(i - 1, s)
    IN  [b |-> r.b /\ r.s.ch[i].last # 0, s |-> r.s]

TakeHasMore(i, s) ==
    LET r == HasMore(i - 1, s)
    IN  [b |-> r.b /\ r.s.ch[i].last > 0, s |-> r.s]

\* ---- select_enumerator
SelectCtor(i, s) == s

\* mutant: operator* forwards the parent's element without applying func_
SelectCurNoApply(i, s) == Cur(i - 1, s)

SelectCur(i, s) ==
    LET c == Cur(i - 1, s)
    IN  [v |-> Apply(s.ch[i].f, c.v), s |-> [c.s EXCEPT !.fn[i + 1] = Append(@, c.v)]]

SelectAdvance(i, s) == Advance(i - 1, s)

\* mutant: operator bool computes the element in order to test for one
SelectHasMoreProbing(i, s) ==
    LET r == HasMore(i - 1, s)
    IN  IF r.b THEN [b |-> TRUE, s |-> SelectCur(i, r.s).s] ELSE r

SelectHasMore(i, s) == HasMore(i - 1, s)

\* ---- until_enumerator
\* mutant: the constructor asks operator bool, which reads the parent's element
UntilCtorPeek(i, s) == HasMore(i, s).s

UntilCtor(i, s) == s

UntilCur(i, s) == Cur(i - 1, s)

\* mutant: operator++ forwards to the parent without asking operator bool
UntilAdvanceAlways(i, s) == Advance(i - 1, s)

UntilAdvance(i, s) ==
    LET r == HasMore(i, s)
    IN  IF r.b THEN Advance(i - 1, r.s) ELSE r.s

\* mutant: has_more forwards to the parent and ignores the predicate
UntilHasMoreParentOnly(i, s) == HasMore(i - 1, s)

UntilHasMore(i, s) ==
    LET r == HasMore(i - 1, s)
    IN  IF ~r.b THEN [b |-> FALSE, s |-> r.s]
        ELSE LET c == Cur(i - 1, r.s)
             IN  [b |-> ~Holds(s.ch[i].p, c.v), s |-> c.s]

\* ---- where_enumerator
\* mutant: the constructor does not move to the first matching element
WhereCtorNoCatchUp(i, s) == s

\* mutant: the constructor tests the predicate without asking the parent first
WhereCtorUnguarded(i, s) ==
    LET c == Cur(i - 1, s)
    IN  IF ~Holds(s.ch[i].p, c.v) THEN Advance(i, c.s) ELSE c.s

WhereCtor(i, s) ==
    LET r == HasMore(i - 1, s)
    IN  IF ~r.b THEN r.s
        ELSE LET c == Cur(i - 1, r.s)
             IN  IF ~Holds(s.ch[i].p, c.v) THEN Advance(i, c.s) ELSE c.s

WhereCur(i, s) == Cur(i - 1, s)

WhereLoop(i, s) ==
    IF s.fault THEN s
    ELSE LET r == HasMore(i, s)
         IN  IF ~r.b THEN r.s
             ELSE LET c == Cur(i - 1, r.s)
                  IN  IF ~Holds(s.ch[i].p, c.v)
                      THEN WhereLoop(i, Advance(i - 1, c.s))
                      ELSE c.s

\* mutant: operator++ moves the parent one step and does not skip
WhereAdvanceOneStep(i, s) == Advance(i - 1, s)

WhereAdvance(i, s) == WhereLoop(i, Advance(i - 1, s))

WhereHasMore(i, s) == HasMore(i - 1, s)

\* ---- the virtual calls of enumerator<T>
\* the call is noted on the cursor that receives it
Read(i, s) ==
    LET h == HasMore(i, s).b
    IN  [s EXCEPT !.rd[i + 1] = @ + 1, !.oob[i + 1] = @ \/ ~h]

Moved(i, s) ==
    LET h == HasMore(i, s).b
    IN  [s EXCEPT !.adv[i + 1] = @ + 1, !.oob[i + 1] = @ \/ ~h]

Cur(i, s) ==
    LET t == Read(i, s)
    IN  IF i = 0 THEN RangeCur(t)
        ELSE CASE s.ch[i].kind = "drop" -> DropCur(i, t)
               [] s.ch[i].kind = "take" -> TakeCur(i, t)
               [] s.ch[i].kind = "select" -> SelectCur(i, t)
               [] s.ch[i].kind = "until" -> UntilCur(i, t)
               [] s.ch[i].kind = "where" -> WhereCur(i, t)

Advance(i, s) ==
    LET t == Moved(i, s)
    IN  IF i = 0 THEN RangeAdvance(t)
        ELSE CASE s.ch[i].kind = "drop" -> DropAdvance(i, t)
               [] s.ch[i].kind = "take" -> TakeAdvance(i, t)
               [] s.ch[i].kind = "select" -> SelectAdvance(i, t)
               [] s.ch[i].kind = "until" -> UntilAdvance(i, t)
               [] s.ch[i].kind = "where" -> WhereAdvance(i, t)

HasMore(i, s) ==
    IF i = 0 THEN RangeHasMore(s)
    ELSE CASE s.ch[i].kind = "drop" -> DropHasMore(i, s)
           [] s.ch[i].kind = "take" -> TakeHasMore(i, s)
           [] s.ch[i].kind = "select" -> SelectHasMore(i, s)
           [] s.ch[i].kind = "until" -> UntilHasMore(i, s)
           [] s.ch[i].kind = "where" -> WhereHasMore(i, s)

Ctor(i, s) ==
    CASE s.ch[i].kind = "drop" -> DropCtor(i, s)
      [] s.ch[i].kind = "take" -> TakeCtor(i, s)
      [] s.ch[i].kind = "select" -> SelectCtor(i, s)
      [] s.ch[i].kind = "until" -> UntilCtor(i, s)
      [] s.ch[i].kind = "where" -> WhereCtor(i, s)

\* ---- the factory methods of enumerator<T>
Adapter(kind, via, n, p, f) ==
    [kind |-> kind, via |-> via, n |-> n, p |-> p, f |-> f, last |-> 0]

drop(count) == Adapter("drop", "drop", count, NoPred, NoFunc)

take(count) == Adapter("take", "take", count, NoPred, NoFunc)

select(func) == Adapter("select", "select", 0, NoPred, func)

until(func) == Adapter("until", "until", 0, func, NoFunc)

until_eq(object) == Adapter("until", "until_eq", 0, Pred("eq", object), NoFunc)

where(func) == Adapter("where", "where", 0, func, NoFunc)

where_neq(object) == Adapter("where", "where_neq", 0, Pred("neq", object), NoFunc)

Build(a, s) == Ctor(Len(s.ch) + 1, [s EXCEPT !.ch = Append(@, a)])

\* ---- to_vector
ToVectorLoop(i, s, result) ==
    IF s.fault THEN [out |-> result, s |-> s]
    ELSE LET r == HasMore(i, s)
         IN  IF ~r.b THEN [out |-> result, s |-> r.s]
             ELSE LET c == Cur(i, r.s)
                  IN  ToVectorLoop(i, Advance(i, c.s), Append(result, c.v))

\* mutant: the loop tests has_more after the first push instead of before it
ToVectorDoWhile(i, s) ==
    LET c == Cur(i, s)
    IN  ToVectorLoop(i, Advance(i, c.s), <<c.v>>)

ToVector(i, s) == ToVectorLoop(i, s, <<>>)

\* ---- the program
Top == Len(chain)

NoJunk == [k \in 1..(PastMax + 1) |-> 0]

JunkCells == [1..(PastMax + 1) -> JunkVals]

Levels == 1..(MaxDepth + 1)

NoCalls ==
    [adv |-> [k \in Levels |-> 0], rd |-> [k \in Levels |-> 0],
     oob |-> [k \in Levels |-> FALSE], fn |-> [k \in Levels |-> <<>>]]

Cursor(p, c, j) ==
    [pos |-> p, ch |-> c, ub |-> FALSE, fault |-> FALSE, junk |-> j,
     adv |-> NoCalls.adv, rd |-> NoCalls.rd, oob |-> NoCalls.oob, fn |-> NoCalls.fn]

St(j) == Cursor(pos, chain, IF status = "wild" THEN junk ELSE j)

\* The cells after the range matter only to an operation that leaves the range.
Memory(Op(_)) == IF status = "wild" \/ ~Op(St(NoJunk)).ub THEN {NoJunk} ELSE JunkCells

Commit(s) ==
    /\ ~s.fault
    /\ pos' = s.pos
    /\ chain' = s.ch
    /\ junk' = (IF s.ub THEN s.junk ELSE junk)
    /\ status' = (IF s.ub THEN "wild" ELSE status)
    /\ calls' = [adv |-> s.adv, rd |-> s.rd, oob |-> s.oob, fn |-> s.fn]
    /\ trapOp' = trapOp

Trap(op, s) ==
    /\ s.ub
    /\ status' = "trap"
    /\ trapOp' = op
    /\ UNCHANGED <<R, junk, chain, pos, phase, lastOp, hm, cur, out, nadv, calls>>

Returned(op, b, v, o) ==
    /\ lastOp' = op
    /\ hm' = b
    /\ cur' = v
    /\ out' = o

Init ==
    /\ R \in Ranges
    /\ junk = NoJunk
    /\ chain = <<>>
    /\ pos = 0
    /\ status = "ok"
    /\ phase = "build"
    /\ lastOp = "from"
    /\ hm = FALSE
    /\ cur = 0
    /\ out = <<>>
    /\ nadv = 0
    /\ calls = NoCalls
    /\ trapOp = "none"

Adapters ==
    {drop(k) : k \in Counts} \cup {take(k) : k \in Counts}
      \cup {select(f) : f \in Funcs}
      \cup {until(p) : p \in Preds} \cup {until_eq(x) : x \in EqArgs}
      \cup {where(p) : p \in Preds} \cup {where_neq(x) : x \in EqArgs}

Running == phase \in {"build", "use", "drained"} /\ status # "trap"

\* the caller chains adapters first and uses the outermost cursor afterwards
Used == IF phase = "build" THEN "use" ELSE phase

Construct ==
    /\ phase = "build"
    /\ status # "trap"
    /\ Len(chain) < MaxDepth
    /\ \E a \in Adapters :
         LET New(s) == Build(a, s)
         IN  \E j \in Memory(New) :
               \/ /\ Commit(New(St(j)))
                  /\ Returned(a.via, FALSE, 0, <<>>)
                  /\ UNCHANGED <<R, phase, nadv>>
               \/ Trap(a.via, New(St(j)))

HasMoreCall ==
    /\ Running
    /\ LET Op(s) == HasMore(Top, s).s
       IN  \E j \in Memory(Op) :
             \/ /\ Commit(Op(St(j)))
                /\ Returned("has_more", HasMore(Top, St(j)).b, 0, <<>>)
                /\ phase' = Used
                /\ UNCHANGED <<R, nadv>>
             \/ Trap("has_more", Op(St(j)))

CurrentCall ==
    /\ Running
    /\ HasMore(Top, St(NoJunk)).b
    /\ LET Op(s) == Cur(Top, s).s
       IN  \E j \in Memory(Op) :
             \/ /\ Commit(Op(St(j)))
                /\ Returned("current", FALSE, Cur(Top, St(j)).v, <<>>)
                /\ phase' = Used
                /\ UNCHANGED <<R, nadv>>
             \/ Trap("current", Op(St(j)))

AdvanceCall ==
    /\ Running
    /\ nadv < MaxAdv
    /\ LET Op(s) == Advance(Top, s)
       IN  \E j \in Memory(Op) :
             \/ /\ Commit(Op(St(j)))
                /\ Returned("advance", FALSE, 0, <<>>)
                /\ nadv' = nadv + 1
                /\ phase' = Used
                /\ UNCHANGED R
             \/ Trap("advance", Op(St(j)))

ToVectorCall ==
    /\ Running
    /\ LET Op(s) == ToVector(Top, s).s
       IN  \E j \in Memory(Op) :
             \/ /\ Commit(Op(St(j)))
                /\ Returned("to_vector", FALSE, 0, ToVector(Top, St(j)).out)
                /\ phase' = (IF phase = "drained" THEN "done" ELSE "drained")
                /\ UNCHANGED <<R, nadv>>
             \/ Trap("to_vector", Op(St(j)))

Next ==
    \/ Construct
    \/ HasMoreCall
    \/ CurrentCall
    \/ AdvanceCall
    \/ ToVectorCall

Spec == Init /\ [][Next]_vars

\* ---- reference list operations and pipelines built from scratch
Min(a, b) == IF a < b THEN a ELSE b

Max(a, b) == IF a > b THEN a ELSE b

RefDrop(k, S) == SubSeq(S, Min(Max(k, 0), Len(S)) + 1, Len(S))

RefTake(k, S) == SubSeq(S, 1, Min(Max(k, 0), Len(S)))

RefMap(f, S) == [n \in 1..Len(S) |-> Apply(f, S[n])]

RefWhere(p, S) == SelectSeq(S, LAMBDA v : Holds(p, v))

RefUntil(p, S) ==
    LET hits == {n \in 1..Len(S) : Holds(p, S[n])}
    IN  IF hits = {} THEN S
        ELSE SubSeq(S, 1, (CHOOSE n \in hits : \A m \in hits : n <= m) - 1)

RefOp(a, S) ==
    CASE a.kind = "drop" -> RefDrop(a.n, S)
      [] a.kind = "take" -> RefTake(a.n, S)
      [] a.kind = "select" -> RefMap(a.f, S)
      [] a.kind = "until" -> RefUntil(a.p, S)
      [] a.kind = "where" -> RefWhere(a.p, S)

RECURSIVE RefChain(_, _)
RefChain(c, n) == IF n = 0 THEN R ELSE RefOp(c[n], RefChain(c, n - 1))

Source == Cursor(0, <<>>, NoJunk)

RECURSIVE Pipeline(_, _)
Pipeline(c, n) == IF n = 0 THEN Source ELSE Build(c[n], Pipeline(c, n - 1))

Drain(c) == ToVector(Len(c), Pipeline(c, Len(c))).out

\* to_vector has just returned for the first time, on a pipeline nobody advanced by hand
FreshDrain == phase = "drained" /\ lastOp = "to_vector" /\ nadv = 0

Only(kind) == Len(chain) = 1 /\ chain[1].kind = kind

\* C1: to_vector of where(P) on a fresh source over R is the subsequence of the
\* elements of R that satisfy P, in order.
C1_WhereCollect ==
    (FreshDrain /\ Only("where")) => out = RefWhere(chain[1].p, R)

C1_Witness ==
    /\ FreshDrain
    /\ chain = <<where(IsEven)>>
    /\ R = <<1, 2, 1>>
    /\ out = <<2>>

\* C2: to_vector of take(k) on a fresh source over R has length min(k, |R|) and is
\* the first min(k, |R|) elements of R; take(0) gives the empty sequence.
C2_TakeCollect ==
    (FreshDrain /\ Only("take") /\ chain[1].n >= 0) =>
        /\ Len(out) = Min(chain[1].n, Len(R))
        /\ out = RefTake(chain[1].n, R)
        /\ (chain[1].n = 0 => out = <<>>)

C2_Witness ==
    /\ FreshDrain
    /\ Len(chain) = 1 /\ chain[1].kind = "take" /\ chain[1].n = 2
    /\ R = <<1, 2, 2>>
    /\ out = <<1, 2>>

\* C3: building drop(k) on a fresh source over R and draining it with to_vector
\* returns R without its first min(k, |R|) elements, so the empty sequence for
\* every k >= |R|; a program that left the range returns no such result.
C3_DropCollect ==
    (Only("drop") /\ chain[1].n >= 0 /\ nadv = 0) =>
        /\ status = "ok"
        /\ (FreshDrain => out = RefDrop(chain[1].n, R))

\* C4: to_vector of until(P) on a fresh source over R is the longest prefix of R
\* with no element satisfying P.
C4_UntilCollect ==
    (FreshDrain /\ Only("until")) =>
        /\ out = RefUntil(chain[1].p, R)
        /\ \A n \in 1..Len(out) : ~Holds(chain[1].p, out[n])
        /\ (Len(R) > 0 /\ Holds(chain[1].p, R[1]) => out = <<>>)
        /\ ((\A n \in 1..Len(R) : ~Holds(chain[1].p, R[n])) => out = R)

C4_Witness ==
    /\ FreshDrain
    /\ chain = <<until(Pred("is", 2))>>
    /\ R = <<1, 2, 1>>
    /\ out = <<1>>

\* C5: to_vector of select(f) over R is f applied element-wise to to_vector of the
\* bare source over R, and to_vector of select(f).select(g) is to_vector of
\* select(g o f) over the same R.
C5_SelectFunctor ==
    /\ (FreshDrain /\ Only("select")) => out = RefMap(chain[1].f, Drain(<<>>))
    /\ (/\ FreshDrain
        /\ Len(chain) = 2
        /\ chain[1].kind = "select" /\ chain[1].f.t \in Prims
        /\ chain[2].kind = "select" /\ chain[2].f.t \in Prims)
       => out = Drain(<<select(Compose(chain[2].f.t, chain[1].f.t))>>)

C5_Witness ==
    /\ FreshDrain
    /\ chain = <<select(Func("succ", "", "")), select(Func("dbl", "", ""))>>
    /\ R = <<1, 2>>
    /\ out = <<4, 6>>

\* C6: to_vector of the outermost adapter of any chain is the reference list
\* operations applied to R in the order the adapters were chained.
C6_ChainCollect == FreshDrain => out = RefChain(chain, Len(chain))

\* C7: a cursor whose has_more is false keeps has_more false over every operation
\* of the program, advance included.
Exhausted(i) == ~HasMore(i, St(NoJunk)).b

C7_ExhaustionStable ==
    [][\A i \in 0..Len(chain) : Exhausted(i) => Exhausted(i)']_vars

\* C8: a call of has_more changes neither the source position nor the local state
\* of any adapter, and a second call in a row returns what the first returned.
C8_HasMorePure ==
    [][lastOp' = "has_more" =>
          /\ pos' = pos
          /\ chain' = chain
          /\ (lastOp = "has_more" => hm' = hm)]_vars

C8_Witness ==
    /\ lastOp = "has_more"
    /\ hm
    /\ Len(chain) = 2
    /\ chain[1].kind = "until"
    /\ chain[2].kind = "take" /\ chain[2].last = 2

\* C9: to_vector called again right after to_vector has drained the pipeline
\* returns the empty sequence and moves neither the source nor any adapter.
C9_SecondDrainEmpty ==
    [][(phase = "drained" /\ lastOp = "to_vector" /\ phase' = "done") =>
          /\ out' = <<>>
          /\ pos' = pos
          /\ chain' = chain]_vars

C9_Witness ==
    /\ phase = "done"
    /\ nadv = 0
    /\ out = <<>>
    /\ Len(chain) = 2
    /\ chain[2].kind = "take" /\ chain[2].last = 0 /\ chain[2].n = 2
    /\ Len(R) = 3 /\ pos = 1

\* C10: where_neq(x) yields what where(element != x) yields, the elements of R
\* other than x in order, and until_eq(x) yields what until(element == x) yields,
\* the longest prefix of R without x.
C10_EqNeqVariants ==
    /\ (FreshDrain /\ Len(chain) = 1 /\ chain[1].via = "where_neq") =>
          /\ out = Drain(<<where(Pred("isnt", chain[1].p.x))>>)
          /\ out = SelectSeq(R, LAMBDA v : v # chain[1].p.x)
          /\ (R = Example3 /\ chain[1].p.x = 1 => out = <<2, 3>>)
    /\ (FreshDrain /\ Len(chain) = 1 /\ chain[1].via = "until_eq") =>
          /\ out = Drain(<<until(Pred("is", chain[1].p.x))>>)
          /\ out = RefUntil(Pred("is", chain[1].p.x), R)
          /\ \A n \in 1..Len(out) : out[n] # chain[1].p.x

C10_Witness ==
    /\ FreshDrain
    /\ chain = <<where_neq(1)>>
    /\ R = Example3
    /\ out = <<2, 3>>

\* ---- what the last operation did to the cursors below the outermost one
\* calls.adv, calls.rd, calls.oob and calls.fn hold level i at index i + 1
ParentIx == Top

TopIx == Top + 1

Below == SubSeq(chain, 1, Top - 1)

\* the constructor named by lastOp has just returned
JustBuilt == phase = "build" /\ Top >= 1 /\ lastOp = chain[Top].via

\* C11: the constructor of drop(count) advances its parent min(count, remaining)
\* times and never while the parent's has_more is false; when count exceeds the
\* remaining elements the new adapter is exhausted with the source at the end.
C11_DropCtorBounded ==
    (JustBuilt /\ chain[Top].kind = "drop" /\ chain[Top].n >= 0) =>
        /\ ~calls.oob[ParentIx]
        /\ Top = 1 =>
             /\ calls.adv[1] = Min(chain[1].n, Len(R))
             /\ (chain[1].n > Len(R) => Exhausted(1) /\ pos = Len(R))

\* the sequence the cursor below the outermost adapter stands for
ParentSeq == Drain(Below)

\* the 1-based index in S of the k-th element satisfying p
KthHit(p, S, k) ==
    CHOOSE n \in 1..Len(S) :
        Holds(p, S[n]) /\ Cardinality({j \in 1..n : Holds(p, S[j])}) = k

\* C12: a to_vector drain of take(k) over a parent with m elements left forwards
\* min(k - 1, m) advances to the parent for k >= 1 and none for k <= 0; with
\* k <= m the parent is left on the last element produced, and for
\* where(P).take(k) the source stands on the k-th element satisfying P.
C12_TakeForwards ==
    (FreshDrain /\ Top >= 1 /\ chain[Top].kind = "take" /\ status = "ok") =>
        LET k == chain[Top].n
            m == Len(ParentSeq)
        IN  /\ calls.adv[ParentIx] = (IF k >= 1 THEN Min(k - 1, m) ELSE 0)
            /\ (k >= 1 /\ k <= m) =>
                 /\ HasMore(Top - 1, St(NoJunk)).b
                 /\ Cur(Top - 1, St(NoJunk)).v = out[Len(out)]
            /\ (k >= 1 /\ k <= m /\ Top = 2 /\ chain[1].kind = "where") =>
                 pos + 1 = KthHit(chain[1].p, R, k)

C12_Witness ==
    /\ FreshDrain
    /\ status = "ok"
    /\ R = Example2
    /\ chain = <<where(IsEven), take(2)>>
    /\ out = <<0, 2>>
    /\ pos = 2
    /\ calls.adv[ParentIx] = 1

TopIsUntil == Top >= 1 /\ chain[Top].kind = "until"

\* the step is one advance call by the caller
AdvanceStep == lastOp' = "advance" /\ nadv' = nadv + 1

\* until stopped on a match: its parent still has elements
StoppedByMatch ==
    TopIsUntil /\ status = "ok" /\ Exhausted(Top) /\ HasMore(Top - 1, St(NoJunk)).b

\* the parent's current element is the first one of ParentSeq satisfying the predicate
OnFirstMatch ==
    LET n == Len(RefUntil(chain[Top].p, ParentSeq)) + 1
    IN  /\ n <= Len(ParentSeq)
        /\ Cur(Top - 1, St(NoJunk)).v = ParentSeq[n]
        /\ Holds(chain[Top].p, ParentSeq[n])

\* C13: once until's has_more is false, further advance calls leave the parent
\* and the source position unchanged, and after a stop by match the parent's
\* current element is still the first element satisfying the predicate.
C13_UntilFrozen ==
    /\ [][(TopIsUntil /\ Exhausted(Top) /\ AdvanceStep) =>
             /\ pos' = pos
             /\ chain' = chain
             /\ calls'.adv[ParentIx] = 0
             /\ Exhausted(Top)']_vars
    /\ [](StoppedByMatch /\ phase \in {"use", "drained"} => OnFirstMatch)

C13_Witness ==
    /\ StoppedByMatch
    /\ lastOp = "advance"
    /\ nadv = MaxAdv
    /\ calls.adv[TopIx] = 1
    /\ calls.adv[ParentIx] = 0
    /\ R = <<1, 2, 1>>
    /\ pos = 1
    /\ OnFirstMatch

TopIsWhere == Top >= 1 /\ chain[Top].kind = "where"

\* the parent of the outermost adapter is exhausted or stands on an element
\* that satisfies the outermost adapter's predicate
ParentOnMatch ==
    \/ ~HasMore(Top - 1, St(NoJunk)).b
    \/ Holds(chain[Top].p, Cur(Top - 1, St(NoJunk)).v)

\* C14: after where's construction and after every advance made while has_more
\* is true, the parent is exhausted or its current element satisfies the
\* predicate, so that has_more true implies current satisfies the predicate.
C14_WhereOnMatch ==
    /\ [][(TopIsWhere /\ ~Exhausted(Top) /\ AdvanceStep /\ status' # "trap") =>
             ParentOnMatch']_vars
    /\ [](TopIsWhere /\ JustBuilt /\ status # "trap" => ParentOnMatch)
    /\ [](TopIsWhere /\ ParentOnMatch /\ ~Exhausted(Top) =>
             Holds(chain[Top].p, Cur(Top, St(NoJunk)).v))

C14_Witness ==
    /\ chain = <<where(IsEven)>>
    /\ R = <<2, 1, 2>>
    /\ lastOp = "advance"
    /\ nadv = 1
    /\ pos = 2
    /\ calls.adv[ParentIx] = 2
    /\ ~Exhausted(Top)
    /\ ParentOnMatch

\* no element of R at 0-based position from or later satisfies p
NoneLeft(p, from) == \A j \in (from + 1)..Len(R) : ~Holds(p, R[j])

\* where sits directly on the source, which has not been overrun
WhereOnSource == TopIsWhere /\ Top = 1 /\ status = "ok"

AtEnd == Exhausted(Top) /\ pos = Len(R) /\ status = "ok"

\* C15: during its construction and during any advance called while its
\* has_more is true, where neither reads nor advances a parent whose has_more
\* is false, also when no remaining element satisfies the predicate; it then
\* ends exhausted with the source position exactly at the end.
C15_WhereInBounds ==
    /\ [][(TopIsWhere /\ ~Exhausted(Top) /\ AdvanceStep) =>
             /\ ~calls'.oob[ParentIx]
             /\ (WhereOnSource /\ NoneLeft(chain[1].p, pos + 1)) => AtEnd']_vars
    /\ [](TopIsWhere /\ JustBuilt =>
             /\ ~calls.oob[ParentIx]
             /\ (WhereOnSource /\ NoneLeft(chain[1].p, 0)) => AtEnd
             /\ (status = "ok" /\ RefWhere(chain[Top].p, ParentSeq) = <<>>) =>
                  Exhausted(Top) /\ ~HasMore(Top - 1, St(NoJunk)).b)
    /\ [](TopIsWhere /\ FreshDrain => ~calls.oob[ParentIx])

C15_Witness ==
    /\ chain = <<where(IsEven)>>
    /\ R = <<2, 1, 1>>
    /\ lastOp = "advance"
    /\ nadv = 1
    /\ calls.adv[ParentIx] = 3
    /\ calls.rd[ParentIx] = 2
    /\ ~calls.oob[ParentIx]
    /\ AtEnd

NonNegCounts == \A i \in 1..Top : chain[i].n >= 0

\* C16: for a finite source and a chain of adapters with non-negative counts
\* and total functions, to_vector terminates: the drain ends, after finitely
\* many advances, with has_more false.
C16_DrainTerminates ==
    NonNegCounts =>
        /\ (nadv = 0 => trapOp # "to_vector")
        /\ FreshDrain => Exhausted(Top)

\* the pipeline as it would be with count 0 in the outermost adapter
WithZero == Pipeline(Append(Below, [chain[Top] EXCEPT !.n = 0, !.last = 0]), Top)

NegTake == Top >= 1 /\ chain[Top].kind = "take" /\ chain[Top].n < 0

NegDrop == Top >= 1 /\ chain[Top].kind = "drop" /\ chain[Top].n < 0

\* C17: negative counts behave as zero: take(n < 0) is exhausted from
\* construction, its to_vector is empty and the drain never advances the
\* parent; drop(count < 0) advances the parent zero times at construction.
C17_NegativeCounts ==
    /\ (NegTake /\ nadv = 0 /\ status # "trap") => Exhausted(Top)
    /\ (NegTake /\ FreshDrain) =>
           /\ out = <<>>
           /\ \A k \in Levels : calls.adv[k] = 0
           /\ calls.rd[ParentIx] = 0
           /\ status = "ok" => pos = ToVector(Top, WithZero).s.pos
    /\ (NegDrop /\ JustBuilt) =>
           /\ \A k \in Levels : calls.adv[k] = 0
           /\ calls.rd[ParentIx] = 0
           /\ status = "ok" => pos = WithZero.pos

C17_Witness ==
    /\ NegTake
    /\ FreshDrain
    /\ Top = 1
    /\ chain[1].n = 0 - 1
    /\ R = <<1, 2>>
    /\ pos = 0
    /\ out = <<>>

C17_WitnessDrop ==
    /\ NegDrop
    /\ JustBuilt
    /\ chain = <<where(IsEven), drop(0 - 1)>>
    /\ R = <<1, 2>>
    /\ pos = 1

TopIsSelect == Top >= 1 /\ chain[Top].kind = "select"

\* current called twice in a row on the outermost adapter
TwiceCur ==
    LET c1 == Cur(Top, St(NoJunk))
        c2 == Cur(Top, c1.s)
    IN  [first |-> c1.v, second |-> c2.v, fn |-> c2.s.fn[TopIx], pos |-> c2.s.pos]

\* C18: select does not cache: func is invoked once per current call and never
\* by has_more or advance, two current calls with no advance between invoke it
\* twice, and to_vector on select(f) invokes f once per element, in order.
C18_SelectNoCache ==
    TopIsSelect =>
        /\ lastOp = "current" =>
             /\ Len(calls.fn[TopIx]) = 1
             /\ cur = Apply(chain[Top].f, calls.fn[TopIx][1])
        /\ lastOp \in {"has_more", "advance"} => calls.fn[TopIx] = <<>>
        /\ (status = "ok" /\ ~Exhausted(Top)) =>
             LET x == Cur(Top - 1, St(NoJunk)).v
             IN  /\ TwiceCur.fn = <<x, x>>
                 /\ TwiceCur.first = Apply(chain[Top].f, x)
                 /\ TwiceCur.second = TwiceCur.first
                 /\ TwiceCur.pos = pos
        /\ (FreshDrain /\ status = "ok") => calls.fn[TopIx] = ParentSeq
        /\ (FreshDrain /\ Top = 1) => calls.fn[TopIx] = R

C18_Witness ==
    /\ TopIsSelect
    /\ Top = 1
    /\ R = <<1, 2>>
    /\ lastOp = "current"
    /\ nadv = 1
    /\ pos = 1
    /\ calls.fn[TopIx] = <<2>>
    /\ cur = Apply(chain[1].f, 2)
    /\ TwiceCur.fn = <<2, 2>>

C18_WitnessDrain ==
    /\ TopIsSelect
    /\ Top = 1
    /\ FreshDrain
    /\ R = <<1, 2, 1>>
    /\ calls.fn[TopIx] = R

LazyKinds == {"take", "select", "until"}

\* the step constructs one more adapter on the pipeline
ConstructStep == phase' = "build" /\ Len(chain') = Len(chain) + 1

\* the number of leading elements of S that do not satisfy p
LeadingMisses(p, S) == Len(RefUntil(p, S))

\* C19: constructing take, select or until neither advances nor reads the
\* parent and leaves the source position as it was; only drop (count advances)
\* and where (the catch-up) move the parent at construction, where by exactly
\* the number of leading elements that do not satisfy the predicate.
C19_LazyConstruction ==
    /\ [][(ConstructStep /\ chain'[Len(chain')].kind \in LazyKinds) =>
             /\ pos' = pos
             /\ SubSeq(chain', 1, Len(chain)) = chain
             /\ status' = status]_vars
    /\ [](JustBuilt /\ chain[Top].kind \in LazyKinds =>
             \A k \in Levels : calls.adv[k] = 0 /\ calls.rd[k] = 0)
    /\ [](JustBuilt /\ chain[Top].kind = "drop" =>
             calls.adv[ParentIx] = Max(chain[Top].n, 0))
    /\ [](JustBuilt /\ TopIsWhere /\ status = "ok" =>
             /\ calls.adv[ParentIx] = LeadingMisses(chain[Top].p, ParentSeq)
             /\ Top = 1 => pos = LeadingMisses(chain[1].p, R))

C19_Witness ==
    /\ JustBuilt
    /\ R = <<1, 1, 2>>
    /\ chain = <<until(Pred("is", 2)), where(IsEven)>>
    /\ pos = 2
    /\ calls.adv[ParentIx] = 2

C19_WitnessLazy ==
    /\ JustBuilt
    /\ R = <<1, 1, 2>>
    /\ Top = 2
    /\ chain[1] = where(IsEven)
    /\ chain[2].kind = "take"
    /\ pos = 2
    /\ calls.adv[ParentIx] = 0

====
